---- MODULE Spec2Model ----
(***************************************************************************)
(* Model of generar_fixture (src/briscas.py): round-robin fixture by the   *)
(* circle method, with a DESCANSA slot for an odd number of teams, an      *)
(* optional return leg and an optional home/away alternation.              *)
(*                                                                         *)
(* One behaviour is one call.  The arguments are chosen in Init; the       *)
(* actions follow the body of the function: validation, one action per     *)
(* iteration of the "Ida" loop, the "Vuelta" block and the final sort.     *)
(* A row is the tuple <<ronda, mesa, local, visita, nota>> of the source.  *)
(***************************************************************************)
EXTENDS Integers, Sequences, FiniteSets, TLC

\* Largest number of teams (and longest names list) tried.
MaxN == 5

\* BYE_LABEL = "DESCANSA"
BYE_LABEL == "DESCANSA"

VARIABLES
    arg_n,              \* the argument n as passed by the caller
    names,              \* [given |-> BOOLEAN, list |-> Seq(STRING)]; given = FALSE is None
    double_round,
    balance_home_away,
    bye_label,
    n,                  \* the local n (incremented when a DESCANSA slot is added)
    equipos,
    rondas,
    mitad,
    work,
    filas,
    r,                  \* loop variable of the Ida loop
    pc                  \* "start", "ida", "vuelta", "sort", "done", "error"

vars == <<arg_n, names, double_round, balance_home_away, bye_label,
          n, equipos, rondas, mitad, work, filas, r, pc>>

args == <<arg_n, names, double_round, balance_home_away, bye_label>>

----------------------------------------------------------------------------
(* Inputs *)

\* f"E{i}"
DefaultLabel(i) == "E" \o ToString(i)

\* [f"E{i}" for i in range(1, n + 1)]
DefaultNames(k) == [i \in 1..k |-> DefaultLabel(i)]

\* The i-th custom name tried: a label of its own, a repeat of the first
\* label, or the reserved label.
NameChoices(i) == {"T" \o ToString(i), "T1", BYE_LABEL}

NameLists(k) == {s \in [1..k -> UNION {NameChoices(i) : i \in 1..k}] :
                    \A i \in 1..k : s[i] \in NameChoices(i)}

\* names: None, or a list of 0..MaxN labels
NamesArgs ==
    {[given |-> FALSE, list |-> <<>>]}
    \cup {[given |-> TRUE, list |-> s] : s \in UNION {NameLists(k) : k \in 0..MaxN}}

\* bye_label: the default, a label that a custom name may carry, the empty string
ByeLabels == {BYE_LABEL, "T2", ""}

----------------------------------------------------------------------------
(* Helpers of generar_fixture *)

\* if n < 2
TooFewTeams(k) == k < 2

\* variant: None is taken for a list of the wrong length
NamesLengthMismatch_NoneCounts(nm, k) == Len(nm.list) # k

\* if names is not None and len(names) != n
NamesLengthMismatch(nm, k) == nm.given /\ Len(nm.list) # k

\* equipos = names[:] if names else [f"E{i}" ...]   (an empty list is falsy)
Equipos(nm, k) ==
    IF nm.given /\ Len(nm.list) > 0 THEN nm.list ELSE DefaultNames(k)

\* impar = (n % 2 == 1)
Impar(k) == k % 2 = 1

\* variant: the DESCANSA slot is never appended
Padded_Never(eq, k, bye) == eq

\* if impar: equipos.append(bye_label)
Padded(eq, k, bye) == IF Impar(k) THEN Append(eq, bye) ELSE eq

\* if impar: n += 1
PaddedN(k) == IF Impar(k) THEN k + 1 ELSE k

\* variant: the second index is off by one
Pares_OffByOne(w, mit) == [i \in 1..mit |-> <<w[i], w[Len(w) - i]>>]

\* pares = [(work[i], work[-(i + 1)]) for i in range(mitad)]   (1-based here)
Pares(w, mit) == [i \in 1..mit |-> <<w[i], w[Len(w) + 1 - i]>>]

\* variant: the first side always rests
Descansa_FirstSide(a, b, bye) == a

\* descansa = a if b == bye_label else b
Descansa(a, b, bye) == IF b = bye THEN a ELSE b

\* variant: the rest row carries another note
RestRow_ByeNote(rr, mesa, descansa) == <<rr, mesa, descansa, "", "BYE">>

\* filas.append((r, mesa, descansa, "", "DESCANSA"))
RestRow(rr, mesa, descansa) == <<rr, mesa, descansa, "", "DESCANSA">>

\* variant: the exchange happens in odd rounds
SwapSides_OddRounds(bal, rr) == bal /\ (rr % 2 = 1)

\* variant: the exchange happens in every round
SwapSides_EveryRound(bal, rr) == bal

\* if balance_home_away and (r % 2 == 0): a, b = b, a
SwapSides(bal, rr) == bal /\ (rr % 2 = 0)

\* filas.append((r, mesa, a, b, "")) after the optional exchange
MatchRow(rr, mesa, a, b, bal) ==
    IF SwapSides(bal, rr) THEN <<rr, mesa, b, a, "">> ELSE <<rr, mesa, a, b, "">>

\* body of "for a, b in pares", for the pair at position i
PairRow(rr, mesa, a, b, bal, bye) ==
    IF a = bye \/ b = bye
    THEN RestRow(rr, mesa, Descansa(a, b, bye))
    ELSE MatchRow(rr, mesa, a, b, bal)

\* variant: tables are counted from 0
Mesa_FromZero(i) == i - 1

\* mesa = 1; ...; mesa += 1 : the table of the i-th pair (i counted from 1)
Mesa(i) == i

\* the rows one round appends to filas
RoundRows(w, mit, rr, bal, bye) ==
    [i \in 1..mit |->
        PairRow(rr, Mesa(i), Pares(w, mit)[i][1], Pares(w, mit)[i][2], bal, bye)]

\* variant: the first element is rotated with the rest
Rotate_WholeList(w) == SubSeq(w, 2, Len(w)) \o <<w[1]>>

\* fijo = work[0]; cola = work[1:]; work = [fijo] + [cola[-1]] + cola[:-1]
Rotate(w) ==
    LET fijo == w[1]
        cola == SubSeq(w, 2, Len(w))
    IN  <<fijo>> \o <<cola[Len(cola)]>> \o SubSeq(cola, 1, Len(cola) - 1)

\* variant: the return leg keeps home and away as they were
MirrorRow_NoSwap(row, rnds) ==
    LET r2 == row[1] + rnds
    IN  <<r2, row[2], row[3], row[4], row[5]>>

\* body of "for (r, mesa, local, visita, nota) in filas" of the Vuelta block
MirrorRow(row, rnds) ==
    LET r2 == row[1] + rnds
    IN  IF row[5] = "DESCANSA"
        THEN <<r2, row[2], row[3], "", "DESCANSA">>
        ELSE <<r2, row[2], row[4], row[3], "">>

\* vuelta = [...]; filas.extend(vuelta)
Vuelta(fs, rnds) == fs \o [k \in 1..Len(fs) |-> MirrorRow(fs[k], rnds)]

\* key=lambda x: (x[0], x[1]) : x's key is not greater than y's
KeyLeq(x, y) == x[1] < y[1] \/ (x[1] = y[1] /\ x[2] <= y[2])

\* stable insertion of row x into the sorted sequence s, after equal keys
RECURSIVE InsertRow(_, _)
InsertRow(s, x) ==
    IF s = <<>> THEN <<x>>
    ELSE IF KeyLeq(s[Len(s)], x) THEN Append(s, x)
    ELSE Append(InsertRow(SubSeq(s, 1, Len(s) - 1), x), s[Len(s)])

\* filas.sort(key=lambda x: (x[0], x[1]))   (stable)
RECURSIVE SortRows(_)
SortRows(s) ==
    IF s = <<>> THEN <<>>
    ELSE InsertRow(SortRows(SubSeq(s, 1, Len(s) - 1)), s[Len(s)])

----------------------------------------------------------------------------
(* The whole function as one operator, for comparing two calls *)

\* the Ida loop from round rr on
RECURSIVE IdaFrom(_, _, _, _, _, _)
IdaFrom(w, rr, rnds, mit, bal, bye) ==
    IF rr > rnds THEN <<>>
    ELSE RoundRows(w, mit, rr, bal, bye)
            \o IdaFrom(Rotate(w), rr + 1, rnds, mit, bal, bye)

\* generar_fixture(k, nm, dr, bal, bye) for arguments that pass validation
GenerarFixture(k, nm, dr, bal, bye) ==
    LET eq   == Padded(Equipos(nm, k), k, bye)
        kk   == PaddedN(k)
        rnds == kk - 1
        mit  == kk \div 2
        ida  == IdaFrom(eq, 1, rnds, mit, bal, bye)
    IN  SortRows(IF dr THEN Vuelta(ida, rnds) ELSE ida)

----------------------------------------------------------------------------
(* The call, step by step *)

Init ==
    /\ arg_n \in 0..MaxN
    /\ names \in NamesArgs
    /\ double_round \in BOOLEAN
    /\ balance_home_away \in BOOLEAN
    /\ bye_label \in ByeLabels
    /\ n = arg_n
    /\ equipos = <<>>
    /\ rondas = 0
    /\ mitad = 0
    /\ work = <<>>
    /\ filas = <<>>
    /\ r = 0
    /\ pc = "start"

\* raise ValueError("Se requieren al menos 2 equipos.")
RaiseTooFew ==
    /\ pc = "start"
    /\ TooFewTeams(n)
    /\ pc' = "error"
    /\ UNCHANGED <<args, n, equipos, rondas, mitad, work, filas, r>>

\* raise ValueError("Si usas nombres personalizados, deben ser exactamente n.")
RaiseNamesLength ==
    /\ pc = "start"
    /\ ~TooFewTeams(n)
    /\ NamesLengthMismatch(names, n)
    /\ pc' = "error"
    /\ UNCHANGED <<args, n, equipos, rondas, mitad, work, filas, r>>

\* lines 48-59: equipos, the DESCANSA slot, rondas, mitad, work, filas
Setup ==
    /\ pc = "start"
    /\ ~TooFewTeams(n)
    /\ ~NamesLengthMismatch(names, n)
    /\ equipos' = Padded(Equipos(names, n), n, bye_label)
    /\ n' = PaddedN(n)
    /\ rondas' = n' - 1
    /\ mitad' = n' \div 2
    /\ work' = equipos'
    /\ filas' = <<>>
    /\ r' = 1
    /\ pc' = "ida"
    /\ UNCHANGED args

\* one iteration of "for r in range(1, rondas + 1)"
IdaRound ==
    /\ pc = "ida"
    /\ r <= rondas
    /\ filas' = filas \o RoundRows(work, mitad, r, balance_home_away, bye_label)
    /\ work' = Rotate(work)
    /\ r' = r + 1
    /\ pc' = IF r = rondas THEN "vuelta" ELSE "ida"
    /\ UNCHANGED <<args, n, equipos, rondas, mitad>>

\* if double_round: the return leg
VueltaLeg ==
    /\ pc = "vuelta"
    /\ double_round
    /\ filas' = Vuelta(filas, rondas)
    /\ pc' = "sort"
    /\ UNCHANGED <<args, n, equipos, rondas, mitad, work, r>>

\* double_round is false: no return leg
NoVuelta ==
    /\ pc = "vuelta"
    /\ ~double_round
    /\ pc' = "sort"
    /\ UNCHANGED <<args, n, equipos, rondas, mitad, work, filas, r>>

\* filas.sort(...); return filas
SortReturn ==
    /\ pc = "sort"
    /\ filas' = SortRows(filas)
    /\ pc' = "done"
    /\ UNCHANGED <<args, n, equipos, rondas, mitad, work, r>>

Next ==
    \/ RaiseTooFew
    \/ RaiseNamesLength
    \/ Setup
    \/ IdaRound
    \/ VueltaLeg
    \/ NoVuelta
    \/ SortReturn

Spec == Init /\ [][Next]_vars

----------------------------------------------------------------------------
(* Vocabulary of the properties *)

\* the call has returned its list
Returned == pc = "done"

\* the labels of the real participants, in the caller's order
Participants ==
    IF names.given THEN names.list ELSE [i \in 1..arg_n |-> "E" \o ToString(i)]

RealLabels == {Participants[i] : i \in 1..arg_n}

PassesValidation == arg_n >= 2 /\ (names.given => Len(names.list) = arg_n)

\* n >= 2, unique labels, none of them the bye label
ValidInput ==
    /\ PassesValidation
    /\ \A i, j \in 1..arg_n : i # j => Participants[i] # Participants[j]
    /\ \A i \in 1..arg_n : Participants[i] # bye_label

\* m: n rounded up to even;  R: rounds of one leg
EvenCount == IF arg_n % 2 = 1 THEN arg_n + 1 ELSE arg_n
LegRounds == EvenCount - 1
TotalRounds == IF double_round THEN 2 * LegRounds ELSE LegRounds

Rows == DOMAIN filas
IsRest(row) == row[5] # ""
IsMatch(row) == row[5] = ""

\* p is in the row as home, as away, or as the resting participant
AppearsIn(p, row) == row[3] = p \/ (IsMatch(row) /\ row[4] = p)

----------------------------------------------------------------------------
\* C1: single round-robin, unique labels different from bye_label, either
\* value of balance_home_away: every unordered pair of distinct participants
\* is the {home, away} of exactly one non-rest row, and no non-rest row pairs
\* a participant with itself.
C1_EveryPairOnce ==
    (Returned /\ ValidInput /\ ~double_round) =>
        /\ \A i, j \in 1..arg_n : i < j =>
              Cardinality({k \in Rows :
                  /\ IsMatch(filas[k])
                  /\ {filas[k][3], filas[k][4]} = {Participants[i], Participants[j]}}) = 1
        /\ \A k \in Rows : IsMatch(filas[k]) => filas[k][3] # filas[k][4]

C1_Witness ==
    /\ Returned /\ ValidInput /\ ~double_round
    /\ arg_n >= 4
    /\ Cardinality({k \in Rows : IsMatch(filas[k])}) = (arg_n * (arg_n - 1)) \div 2

\* C2: valid input, any flags: in every round each real participant is in
\* exactly one row of that round (home, away, or home of a rest row).
C2_OncePerRound ==
    (Returned /\ ValidInput) =>
        \A rr \in 1..TotalRounds : \A p \in RealLabels :
            Cardinality({k \in Rows : filas[k][1] = rr /\ AppearsIn(p, filas[k])}) = 1

C2_Witness ==
    /\ Returned /\ ValidInput /\ double_round
    /\ arg_n >= 3 /\ arg_n % 2 = 1
    /\ \E k \in Rows : filas[k][1] = TotalRounds /\ IsRest(filas[k])

\* C3: single round-robin, valid input: an even n gives no rest row; an odd
\* n gives exactly one rest row in each of its n rounds, and every
\* participant is the resting one of exactly one rest row.
C3_RestRowsByParity ==
    (Returned /\ ValidInput /\ ~double_round) =>
        IF arg_n % 2 = 0
        THEN \A k \in Rows : ~IsRest(filas[k])
        ELSE /\ \A rr \in 1..arg_n :
                    Cardinality({k \in Rows : filas[k][1] = rr /\ IsRest(filas[k])}) = 1
             /\ \A k \in Rows : filas[k][1] \in 1..arg_n
             /\ \A p \in RealLabels :
                    Cardinality({k \in Rows : IsRest(filas[k]) /\ filas[k][3] = p}) = 1

C3_Witness ==
    /\ Returned /\ ValidInput /\ ~double_round
    /\ arg_n = 5
    /\ Cardinality({k \in Rows : IsRest(filas[k])}) = 5

\* C4: for every call that returns: the list is sorted by (round, table),
\* its rounds are exactly 1..R (R = m-1, or 2(m-1) with double_round), in
\* every round the tables are exactly 1..m/2, each used once, and the length
\* is R * m/2.
C4_RoundsAndTables ==
    Returned =>
        /\ \A k \in Rows : k < Len(filas) =>
              \/ filas[k][1] < filas[k + 1][1]
              \/ (filas[k][1] = filas[k + 1][1] /\ filas[k][2] <= filas[k + 1][2])
        /\ {filas[k][1] : k \in Rows} = 1..TotalRounds
        /\ \A rr \in 1..TotalRounds :
              /\ {filas[k][2] : k \in {j \in Rows : filas[j][1] = rr}} = 1..(EvenCount \div 2)
              /\ Cardinality({k \in Rows : filas[k][1] = rr}) = EvenCount \div 2
        /\ Len(filas) = TotalRounds * (EvenCount \div 2)

C4_Witness ==
    /\ Returned /\ ValidInput /\ double_round
    /\ arg_n = 3
    /\ Len(filas) = 12

\* the rows of the first leg of the returned list
InFirstLeg(row) == row[1] <= LegRounds
FirstLeg == SelectSeq(filas, InFirstLeg)

\* what the return leg must hold for a first-leg row
Mirrored(row) ==
    IF IsMatch(row)
    THEN <<row[1] + LegRounds, row[2], row[4], row[3], "">>
    ELSE <<row[1] + LegRounds, row[2], row[3], "", row[5]>>

\* C5: with double_round, for any bye_label: the rows of rounds 1..R are the
\* list the same call returns without double_round; every such row has
\* exactly one row at (round + R, same table), which is the row with home and
\* away exchanged (a rest row keeps home, empty away and its note); and for
\* unique labels different from bye_label every unordered pair meets exactly
\* twice, once with each side as home.
C5_ReturnLegMirrors ==
    (Returned /\ double_round) =>
        /\ FirstLeg = GenerarFixture(arg_n, names, FALSE, balance_home_away, bye_label)
        /\ \A k \in Rows : InFirstLeg(filas[k]) =>
              LET at == {j \in Rows : /\ filas[j][1] = filas[k][1] + LegRounds
                                      /\ filas[j][2] = filas[k][2]}
              IN  /\ Cardinality(at) = 1
                  /\ \A j \in at : filas[j] = Mirrored(filas[k])
        /\ ValidInput =>
              \A i, j \in 1..arg_n : i # j =>
                  Cardinality({k \in Rows :
                      /\ IsMatch(filas[k])
                      /\ filas[k][3] = Participants[i]
                      /\ filas[k][4] = Participants[j]}) = 1

C5_Witness ==
    /\ Returned /\ double_round /\ ValidInput
    /\ arg_n >= 3 /\ arg_n % 2 = 1
    /\ bye_label # BYE_LABEL
    /\ Len(filas) = 2 * Len(FirstLeg)
    /\ \E k \in Rows : filas[k][1] > LegRounds /\ IsRest(filas[k])
    /\ \E k \in Rows : filas[k][1] > LegRounds /\ IsMatch(filas[k])

\* the two conditions under which the call must fail
MustFail == arg_n < 2 \/ (names.given /\ Len(names.list) # arg_n)

\* an upper bound on the steps the call still takes
StepsLeft ==
    CASE pc = "start"  -> arg_n + 5
      [] pc = "ida"    -> (rondas - r) + 3
      [] pc = "vuelta" -> 2
      [] pc = "sort"   -> 1
      [] OTHER         -> 0

\* some statement of the function is still to be executed
CanStep ==
    \/ pc \in {"start", "vuelta", "sort"}
    \/ pc = "ida" /\ r <= rondas

\* C6: the call fails exactly when n < 2 or a supplied names list has a
\* length other than n, and then no row is produced; every other call
\* (duplicate labels, a label equal to bye_label, any flags) terminates and
\* returns its list (every step brings the call closer to its end, and only
\* a failed or a returned call has no further step).
C6_FailsExactlyOnBadArguments ==
    /\ [](pc = "error" => (MustFail /\ filas = <<>>))
    /\ [](pc \notin {"start", "error"} => ~MustFail)
    /\ [](CanStep \/ pc \in {"done", "error"})
    /\ [][StepsLeft' < StepsLeft /\ StepsLeft' >= 0]_vars

C6_Witness ==
    /\ Returned
    /\ ~MustFail
    /\ names.given
    /\ \E i, j \in 1..arg_n : i # j /\ names.list[i] = names.list[j]
    /\ \E i \in 1..arg_n : names.list[i] = bye_label
    /\ Len(filas) > 0

\* the row the round in progress appends for its i-th pair
NewRow(i) == filas'[Len(filas) + i]

\* a round of the Ida loop is being executed
InIdaRound == pc = "ida" /\ Len(filas') = Len(filas) + mitad

\* a pair with the bye slot on either side gives <<real participant, "", note>>
\* with a non-empty note; any other pair gives a row with an empty note and
\* two distinct real labels
PairsBecomeRows ==
    (InIdaRound /\ ValidInput) =>
        \A i \in 1..mitad :
            LET a == work[i]
                b == work[Len(work) + 1 - i]
            IN  IF a = bye_label \/ b = bye_label
                THEN /\ NewRow(i)[3] = (IF a = bye_label THEN b ELSE a)
                     /\ NewRow(i)[3] \in RealLabels
                     /\ NewRow(i)[4] = ""
                     /\ NewRow(i)[5] # ""
                ELSE /\ NewRow(i)[5] = ""
                     /\ {NewRow(i)[3], NewRow(i)[4]} = {a, b}
                     /\ {a, b} \subseteq RealLabels
                     /\ a # b

\* bye_label is in no home and no away field of the returned list
ByeLabelNowhere ==
    (Returned /\ ValidInput) =>
        \A k \in Rows : filas[k][3] # bye_label /\ filas[k][4] # bye_label

\* bye_label is in no home field and in no away field of a real match; the
\* away field of a rest row is the empty string, whatever bye_label is
ByeLabelNotACompetitor ==
    (Returned /\ ValidInput) =>
        \A k \in Rows :
            /\ filas[k][3] # bye_label
            /\ IsMatch(filas[k]) => filas[k][4] # bye_label
            /\ IsRest(filas[k]) => filas[k][4] = ""
            /\ bye_label # "" => filas[k][4] # bye_label

\* C7 as stated: bye_label never appears as home or away of a returned row,
\* and the pairs become rows as described.
C7_AsStated == [][PairsBecomeRows /\ ByeLabelNowhere']_vars

\* C7 (amended): for unique labels different from bye_label, bye_label is
\* never the home of a row nor the away of a real match, and it is the away
\* of a rest row only when bye_label is the empty string (the away of a rest
\* row is always ""); a pair with the bye slot gives <<real participant, "",
\* non-empty note>> whichever side the bye slot is on, and every other pair
\* gives a row with empty note and two distinct real labels.
C7_ByeSlotNotExposed == [][PairsBecomeRows /\ ByeLabelNotACompetitor']_vars

\* the bye slot has been on the first side of a pair (round 2, table 2) and
\* on the second side (round 1, table 1)
C7_Witness ==
    /\ Returned /\ ValidInput
    /\ arg_n % 2 = 1
    /\ bye_label # ""
    /\ \E k \in Rows : filas[k][1] = 1 /\ filas[k][2] = 1 /\ IsRest(filas[k])
    /\ \E k \in Rows : filas[k][1] = 2 /\ filas[k][2] = 2 /\ IsRest(filas[k])

\* a row with an empty away field (a rest row) in every round
RestRowInEveryRound(note) ==
    \A rr \in 1..TotalRounds :
        \E k \in Rows : filas[k][1] = rr /\ filas[k][4] = "" /\ filas[k][5] = note

\* C8 as stated: every note is "" or "BYE", and rest rows carry "BYE".
C8_AsStated ==
    Returned =>
        /\ \A k \in Rows : filas[k][5] \in {"", "BYE"}
        /\ \A k \in Rows : filas[k][4] = "" => filas[k][5] = "BYE"
        /\ arg_n % 2 = 1 => RestRowInEveryRound("BYE")

\* C8 (amended): for any input and any bye_label every note is "" or
\* "DESCANSA", and rest rows (one in every round when n is odd) carry
\* "DESCANSA".
C8_NoteIsEmptyOrDescansa ==
    Returned =>
        /\ \A k \in Rows : filas[k][5] \in {"", "DESCANSA"}
        /\ \A k \in Rows : filas[k][4] = "" => filas[k][5] = "DESCANSA"
        /\ arg_n % 2 = 1 => RestRowInEveryRound("DESCANSA")

C8_Witness ==
    /\ Returned /\ double_round
    /\ arg_n % 2 = 1
    /\ bye_label = "T2"
    /\ \E k \in Rows : filas[k][1] > LegRounds /\ filas[k][5] = "DESCANSA"

\* the same call with the other value of balance_home_away
OtherBalance ==
    GenerarFixture(arg_n, names, FALSE, ~balance_home_away, bye_label)

\* C9: single round-robin: the lists for the two values of
\* balance_home_away have the same length and, row by row, the same round,
\* table and note; rest rows are identical, real matches of odd rounds are
\* identical, real matches of even rounds have home and away exchanged.
C9_BalanceOnlyOrients ==
    (Returned /\ ~double_round) =>
        /\ Len(OtherBalance) = Len(filas)
        /\ \A k \in Rows :
              LET x == filas[k]
                  y == OtherBalance[k]
              IN  /\ x[1] = y[1] /\ x[2] = y[2] /\ x[5] = y[5]
                  /\ IsRest(x) => x = y
                  /\ (IsMatch(x) /\ x[1] % 2 = 1) => x = y
                  /\ (IsMatch(x) /\ x[1] % 2 = 0) => (x[3] = y[4] /\ x[4] = y[3])

C9_Witness ==
    /\ Returned /\ ~double_round /\ ValidInput
    /\ balance_home_away
    /\ \E k \in Rows : /\ IsMatch(filas[k]) /\ filas[k][1] % 2 = 0
                       /\ OtherBalance[k] # filas[k]
    /\ \E k \in Rows : IsRest(filas[k]) /\ filas[k][1] % 2 = 0

\* C10: balance_home_away, single round-robin, n >= 3, unique labels
\* different from bye_label: every participant plays some real match in
\* which it is not the home side, and the first participant is home only in
\* odd rounds.
C10_NobodyAlwaysHome ==
    (Returned /\ ValidInput /\ balance_home_away /\ ~double_round /\ arg_n >= 3) =>
        /\ \A p \in RealLabels :
              \E k \in Rows : IsMatch(filas[k]) /\ filas[k][4] = p /\ filas[k][3] # p
        /\ \A k \in Rows :
              (IsMatch(filas[k]) /\ filas[k][3] = Participants[1]) => filas[k][1] % 2 = 1

C10_Witness ==
    /\ Returned /\ ValidInput /\ balance_home_away /\ ~double_round
    /\ arg_n >= 4
    /\ \E k \in Rows : IsMatch(filas[k]) /\ filas[k][3] = Participants[1] /\ filas[k][1] = 3
    /\ \E k \in Rows : IsMatch(filas[k]) /\ filas[k][4] = Participants[1] /\ filas[k][1] = 2

====
